---- MODULE Spec2Model ----
(***************************************************************************)
(* Asset acquisition pipeline of scripts/html_banner_scraper.py            *)
(* (class HTMLBannerScraper): URL normalisation, the asset cache, the      *)
(* sequential and the parallel download paths, stylesheet rewriting and    *)
(* the attempt/retry controller _download_assets_with_retry, driven by     *)
(* scrape_banner.                                                          *)
(*                                                                         *)
(* Values.                                                                 *)
(*   reference (a string of the markup or of a stylesheet):                *)
(*     <<"rel", id>>   a relative reference to resource id                 *)
(*     <<"abs", id>>   an absolute URL of resource id in a spelling that   *)
(*                     is not the canonical one                            *)
(*     <<"web", id>>   the canonical absolute URL of resource id           *)
(*     <<"path", pre, file>>  a local path pre + file name                 *)
(*     <<"loc", pre, file>>   the absolute URL a local path resolves to    *)
(*                            against the page URL                         *)
(*     <<"frag", "page">>     a reference that begins with "#"             *)
(*     <<"data", "inline">>   a reference that begins with "data:"         *)
(*     <<"web", "page">>      the page URL, with or without a fragment     *)
(*   file name: [h, n, ext] = <hash>[_<n>][ext]                            *)
(***************************************************************************)
EXTENDS Integers, Sequences, FiniteSets, TLC

VARIABLES
    parallel_downloads,   \* self.parallel_downloads
    global_assets,        \* self.global_assets
    page,                 \* driver.page_source of the banner, as elements
    dead,                 \* resources the server answers with 404, always
    soup,                 \* the BeautifulSoup object given to the controller
    soup_copy,            \* copy.deepcopy(soup) of the parallel path
    asset_cache,          \* self.asset_cache: URL -> local path
    cache_file,           \* global_assets/asset_cache.json, as a mapping
    files,                \* the active assets directory: file name -> content
    _download_failures,   \* self._download_failures
    attempt,              \* loop variable of _download_assets_with_retry
    pc,                   \* position of the capture
    cur,                  \* sequential path: elements and stylesheet in work
    all_assets,           \* parallel path: result of _collect_all_assets
    tasks,                \* parallel path: the download_with_semaphore tasks
    downloaded_assets,    \* mapping that ends in assets.json
    manifest,             \* assets.json as this capture wrote it
    manifest_writes,      \* how often assets.json was written in the capture
    index_html,           \* index.html as this capture wrote it
    verdict,              \* result of _download_assets_with_retry
    backoff,              \* seconds slept before the attempt in progress
    capture,              \* number of scrape_banner calls so far
    reqs,                 \* GET requests of this attempt, per canonical URL
    fetch_failed,         \* canonical URLs of which a GET failed, this attempt
    fetch_ok,             \* canonical URLs downloaded and kept, this attempt
    discovered,           \* canonical URLs discovered, this attempt
    prev_failed,          \* fetch_failed of the previous attempt
    cache_at_attempt,     \* keys of the cache when the attempt started
    cache_at_capture,     \* keys of the cache when the capture started
    n_url,                \* a reference handed to _normalize_url, as text
    n_out,                \* the results of normalising it, in order
    v_in,                 \* a 200 response handed to the fetch: URL, body, header
    v_out                 \* what the fetch did with it

vars == <<parallel_downloads, global_assets, page, dead, soup, soup_copy,
          asset_cache, cache_file, files, _download_failures, attempt, pc,
          cur, all_assets, tasks, downloaded_assets, manifest,
          manifest_writes, index_html, verdict, backoff, capture, reqs,
          fetch_failed, fetch_ok, discovered, prev_failed, cache_at_attempt,
          cache_at_capture, n_url, n_out, v_in, v_out>>

config == <<parallel_downloads, global_assets, page, dead>>

history == <<reqs, fetch_failed, fetch_ok, discovered>>

\* the variables of the function-level specifications
probe == <<n_url, n_out, v_in, v_out>>

-----------------------------------------------------------------------------
(* Program constants and bounds *)

max_retries == 3

max_concurrent == 5

MaxCaptures == 2

\* the largest number of references of a batch
BatchSize == 6

-----------------------------------------------------------------------------
(* Python values *)

None == <<"None">>

EmptyMap == [x \in {} |-> None]

\* dict[key] = value
Put(map, key, value) ==
    [x \in DOMAIN map \cup {key} |-> IF x = key THEN value ELSE map[x]]

Inc(map, key) ==
    Put(map, key, IF key \in DOMAIN map THEN map[key] + 1 ELSE 1)

Count(map, key) == IF key \in DOMAIN map THEN map[key] ELSE 0

-----------------------------------------------------------------------------
(* The resources of the server and the pages *)

Ids == {"a", "f", "s", "g"}

\* the images of a page with many references
BatchNames == <<"b1", "b2", "b3", "b4", "b5", "b6", "b7", "b8">>

BatchIds == {BatchNames[i] : i \in 1..BatchSize}

\* extension of the last path segment of the resource's URL
Ext(id) ==
    CASE id = "a" -> ".jpg"
      [] id = "f" -> ".woff"
      [] id \in {"s", "p", "q"} -> ".css"
      [] id = "j" -> ".js"
      [] id = "t" -> ".txt"
      [] id \in BatchIds -> ".jpg"
      [] id = "a2" -> ".jpg"
      [] OTHER -> ""

\* "o" is a resource whose path ends with no extension of the table
\* "g" is a stylesheet of the font service: fonts.googleapis.com/css?family=..
FontService(id) == id = "g"

Img(r) == [tag |-> "img", val |-> r]

Link(r) == [tag |-> "link", val |-> r]

Stylesheet(r) == [tag |-> "stylesheet", val |-> r]

Pages ==
    { <<>>,
      << Img(<<"rel", "a">>), Img(<<"abs", "a">>) >>,
      << Img(<<"rel", "a">>), Stylesheet(<<"rel", "s">>) >>,
      << Link(<<"web", "g">>), Stylesheet(<<"web", "g">>) >>,
      << Stylesheet(<<"abs", "s">>) >>,
      << Img(<<"data", "inline">>), Stylesheet(<<"frag", "page">>) >>,
      << Stylesheet(<<"abs", "p">>) >>,
      << Img(<<"abs", "o">>) >>,
      << Stylesheet(<<"abs", "o">>) >> }

\* "a2" is the image "a" under the other scheme: http://cdn/a.jpg next to
\* https://cdn/a.jpg, two URLs with the same host, path and query
TwinPage == << Img(<<"abs", "a">>), Img(<<"abs", "a2">>) >>

\* a page of n images
BatchPage(n) == [i \in 1..n |-> Img(<<"abs", BatchNames[i]>>)]

-----------------------------------------------------------------------------
(* URL normaliser, classifier, validator, file names *)

\* _normalize_url(url, base_url); has_base: base_url is not empty
_normalize_url(url, has_base) ==
    CASE url[1] = "rel" -> IF has_base THEN <<"web", url[2]>> ELSE url
      [] url[1] = "abs" -> <<"web", url[2]>>
      [] url[1] = "path" -> IF has_base THEN <<"loc", url[2], url[3]>> ELSE url
      [] OTHER -> url

\* url.startswith(('data:', 'javascript:', '#'))
Passthrough(url) == url[1] \in {"data", "frag"}

\* urljoin(base_url, href) of the sequential stylesheet loop: no re-encoding;
\* a fragment alone resolves to the page URL
css_url_of(href) ==
    CASE href[1] = "rel" -> <<"web", href[2]>>
      [] href[1] = "path" -> <<"loc", href[2], href[3]>>
      [] href[1] = "frag" -> <<"web", "page">>
      [] OTHER -> href

\* the canonical URL a request for url goes to
Canon(url) == _normalize_url(url, TRUE)

UrlExt(url) == IF url[1] \in {"loc", "path"} THEN url[3].ext ELSE Ext(url[2])

_get_expected_content_type(url) ==
    IF url[1] \in {"web", "abs"} /\ FontService(url[2]) THEN "css"
    ELSE CASE UrlExt(url) = ".jpg" -> "image"
           [] UrlExt(url) = ".css" -> "css"
           [] UrlExt(url) = ".js" -> "javascript"
           [] UrlExt(url) = ".woff" -> "font"
           [] UrlExt(url) = ".txt" -> "text"
           [] OTHER -> "other"

\* content of a 200 response: the resource, and whether its bytes match one of
\* the validator's patterns for the resource's category
Content(url, good) == [src |-> Canon(url), good |-> good]

\* The bytes of a body, as far as the validator looks at them:
\*   size   len(content)
\*   magic  the signature at its start: "jpeg" (an image), "woff" (a font), "none"
\*   eot    bytes 34..37 are the EOT magic number (size >= 38)
\*   text   "css", "js", "both": the text holds a CSS / JavaScript indicator;
\*          "plain": UTF-8 without one; "binary": not UTF-8, without one
Bodies ==
    {b \in [size : {0, 3, 20, 36, 100}, magic : {"jpeg", "woff", "none"},
            eot : BOOLEAN, text : {"css", "js", "both", "plain", "binary"}] :
        /\ b.size < 4 => b.magic = "none"
        /\ b.eot => b.size >= 38
        /\ b.size = 0 => b.text = "plain"}

\* values of the Content-Type header
Headers ==
    {"", "image/jpeg", "text/css", "application/javascript", "font/woff2",
     "text/html", "application/json", "application/octet-stream"}

\* _validate_by_magic_bytes: "true", "false", or "raise" when struct.unpack
\* gets fewer than the four bytes content[34:38]
_validate_by_magic_bytes(content, expected_type) ==
    IF content.size < 4 THEN "false"
    ELSE IF expected_type = "image"
    THEN IF content.magic = "jpeg" THEN "true" ELSE "false"
    ELSE IF expected_type = "font"
    THEN IF content.magic = "woff" THEN "true"
         ELSE IF content.size > 34
         THEN IF content.size < 38 THEN "raise"
              ELSE IF content.eot THEN "true" ELSE "false"
         ELSE "false"
    ELSE "false"

\* _validate_by_content_type_header
_validate_by_content_type_header(content_type_header, expected_type) ==
    IF content_type_header = "" THEN FALSE
    ELSE CASE expected_type = "image" -> content_type_header = "image/jpeg"
           [] expected_type = "css" -> content_type_header = "text/css"
           [] expected_type = "javascript" ->
                  content_type_header = "application/javascript"
           [] expected_type = "font" -> content_type_header = "font/woff2"
           [] expected_type = "text" ->
                  content_type_header \in {"text/css", "text/html",
                                           "application/json"}
           [] OTHER -> FALSE

\* _validate_text_content
_validate_text_content(content, expected_type) ==
    CASE expected_type = "css" -> content.text \in {"css", "both"}
      [] expected_type = "javascript" -> content.text \in {"js", "both"}
      [] expected_type = "text" -> content.text # "binary"
      [] OTHER -> FALSE

\* variant of _validate_content_type that rejects when a check raises
_validate_content_type_rejecting(content, expected_type, content_type_header) ==
    IF content.size = 0 THEN FALSE
    ELSE IF _validate_by_magic_bytes(content, expected_type) = "raise"
    THEN FALSE
    ELSE \/ _validate_by_magic_bytes(content, expected_type) = "true"
         \/ _validate_by_content_type_header(content_type_header, expected_type)
         \/ /\ expected_type \in {"css", "javascript", "text"}
            /\ _validate_text_content(content, expected_type)

\* _validate_content_type: an exception of a check is caught at line 299 and
\* the content accepted
_validate_content_type(content, expected_type, content_type_header) ==
    IF content.size = 0 THEN FALSE
    ELSE IF _validate_by_magic_bytes(content, expected_type) = "raise"
    THEN TRUE
    ELSE \/ _validate_by_magic_bytes(content, expected_type) = "true"
         \/ _validate_by_content_type_header(content_type_header, expected_type)
         \/ /\ expected_type \in {"css", "javascript", "text"}
            /\ _validate_text_content(content, expected_type)

\* the body of a response of the capture: one that carries the signature,
\* the header and the structure of the category its URL stands for, or one
\* that carries none of any
Body(content, expected_type) ==
    IF content.good
    THEN [size |-> 100,
          magic |-> CASE expected_type = "image" -> "jpeg"
                      [] expected_type = "font" -> "woff"
                      [] OTHER -> "none",
          eot |-> FALSE,
          text |-> IF expected_type = "css" THEN "css" ELSE "binary"]
    ELSE [size |-> 100, magic |-> "none", eot |-> FALSE, text |-> "binary"]

\* the Content-Type header of a response of the capture
Header(content, expected_type) ==
    IF content.good
    THEN CASE expected_type = "image" -> "image/jpeg"
           [] expected_type = "css" -> "text/css"
           [] expected_type = "font" -> "font/woff2"
           [] OTHER -> "application/octet-stream"
    ELSE "application/octet-stream"

\* lines 1145-1149 (1366-1372): the response is validated
Validated(content, expected_type) ==
    _validate_content_type(Body(content, expected_type), expected_type,
                           Header(content, expected_type))

\* the url(...) arguments of a stylesheet text, in order
CssRefs(content) ==
    IF ~content.good THEN <<>>
    ELSE CASE content.src = <<"web", "s">> -> << <<"rel", "f">>, <<"rel", "a">> >>
           [] content.src = <<"web", "p">> -> << <<"rel", "q">> >>
           [] content.src = <<"web", "q">> -> << <<"rel", "a">> >>
           [] OTHER -> <<>>

\* host + path + query, the string that is hashed
HostPathQuery(url) == IF url[2] = "a2" THEN <<url[1], "a">> ELSE url

_generate_unique_filename(url) ==
    [h |-> HostPathQuery(url), n |-> 0, ext |-> UrlExt(url)]

_get_asset_path_prefix == IF global_assets THEN "../global_assets/" ELSE "assets/"

PathOf(file) == <<"path", _get_asset_path_prefix, file>>

\* while local_path.exists(): filename = f"{base_name}_{counter}{ext}"
FreeName(file, dir) ==
    LET n == CHOOSE k \in 0..Cardinality(DOMAIN dir) :
                 /\ [file EXCEPT !.n = k] \notin DOMAIN dir
                 /\ \A j \in 0..(k - 1) : [file EXCEPT !.n = j] \in DOMAIN dir
    IN  [file EXCEPT !.n = n]

\* self.asset_cache[original_url] = local_path
_cache_downloaded_asset(cache, original_url, local_path) ==
    Put(cache, original_url, local_path)

\* answers of the server to a GET; a URL that is no http(s) URL makes the
\* HTTP client raise before anything is sent
Responses(url) ==
    IF Passthrough(url) THEN {"err"}
    ELSE IF Canon(url)[1] = "web" /\ Canon(url)[2] \in dead
    THEN {"404"}
    ELSE {"ok", "bad", "err"}

\* the requests sent so far and one for url, if the client can send it
Sent(url) == IF Passthrough(url) THEN reqs ELSE Inc(reqs, Canon(url))

\* the URLs whose fetch failed so far and url, if a request for it went out
Failed(url) ==
    IF Passthrough(url) THEN fetch_failed ELSE fetch_failed \cup {Canon(url)}

\* extension guessed from the HEAD response of a name without extension
HeadExts(url) ==
    IF url[1] \in {"web", "abs"} /\ FontService(url[2]) THEN {"", ".css"} ELSE {""}

-----------------------------------------------------------------------------
(* Helpers over the markup *)

RECURSIVE IdxOf(_, _, _)
\* soup.find_all(tag), as positions, in document order from position i
IdxOf(s, tag, i) ==
    IF i > Len(s) THEN <<>>
    ELSE (IF s[i].tag = tag THEN <<i>> ELSE <<>>) \o IdxOf(s, tag, i + 1)

\* lines 1456, 1584: the positions whose attribute value is a URL to fetch
Fetchable(s, idx) == SelectSeq(idx, LAMBDA i : ~Passthrough(s[i].val))

NoCur == [elems |-> <<>>, links |-> <<>>, css |-> <<>>]

NoFile == [h |-> None, n |-> 0, ext |-> ""]

NoTasks == [k \in {} |-> None]

-----------------------------------------------------------------------------
(* Construction, scrape_banner *)

\* the state of a new HTMLBannerScraper before any capture
Started ==
    /\ soup = <<>>
    /\ soup_copy = <<>>
    /\ _download_failures = 0
    /\ attempt = 0
    /\ pc = "idle"
    /\ cur = NoCur
    /\ all_assets = EmptyMap
    /\ tasks = NoTasks
    /\ downloaded_assets = EmptyMap
    /\ manifest = EmptyMap
    /\ manifest_writes = 0
    /\ index_html = None
    /\ verdict = "none"
    /\ backoff = 0
    /\ capture = 0
    /\ reqs = EmptyMap
    /\ fetch_failed = {}
    /\ fetch_ok = {}
    /\ discovered = {}
    /\ prev_failed = {}
    /\ cache_at_attempt = {}
    /\ cache_at_capture = {}

\* the same with no cache file and no asset on disk
Constructed ==
    /\ asset_cache = EmptyMap
    /\ cache_file = EmptyMap
    /\ files = EmptyMap
    /\ Started

Init ==
    /\ parallel_downloads \in BOOLEAN
    /\ global_assets \in BOOLEAN
    /\ page \in Pages
    /\ dead \in {{}} \cup {{id} : id \in Ids}
    /\ Constructed
    /\ n_url = <<>>
    /\ n_out = EmptyMap
    /\ v_in = None
    /\ v_out = <<>>

\* _clear_asset_cache: the cache after it
_clear_asset_cache == IF global_assets THEN asset_cache ELSE EmptyMap

\* _save_global_asset_cache: the persisted file after it
_save_global_asset_cache(cache) == IF global_assets THEN cache ELSE cache_file

\* _load_global_asset_cache, from __init__ of a new process
_load_global_asset_cache == IF global_assets THEN cache_file ELSE EmptyMap

\* scrape_banner up to the call of _download_assets_with_retry; the banner
\* directory is the one of the capture before (a banner scraped again)
scrape_banner ==
    /\ pc \in {"idle", "done"}
    /\ capture < MaxCaptures
    /\ capture' = capture + 1
    /\ cache_file' = _save_global_asset_cache(asset_cache)
    /\ asset_cache' = _clear_asset_cache
    /\ cache_at_capture' = DOMAIN _clear_asset_cache
    /\ soup' = page
    /\ soup_copy' = <<>>
    /\ attempt' = 0
    /\ backoff' = 0
    /\ manifest' = EmptyMap
    /\ manifest_writes' = 0
    /\ index_html' = None
    /\ verdict' = "none"
    /\ downloaded_assets' = EmptyMap
    /\ all_assets' = EmptyMap
    /\ prev_failed' = {}
    /\ cur' = NoCur
    /\ tasks' = NoTasks
    /\ reqs' = EmptyMap
    /\ fetch_failed' = {}
    /\ fetch_ok' = {}
    /\ discovered' = {}
    /\ cache_at_attempt' = DOMAIN _clear_asset_cache
    /\ pc' = "attempt"
    /\ UNCHANGED <<probe, config, files, _download_failures>>

\* a new process: HTMLBannerScraper.__init__
NewInstance ==
    /\ pc = "done"
    /\ capture < MaxCaptures
    /\ asset_cache' = _load_global_asset_cache
    /\ _download_failures' = 0
    /\ pc' = "idle"
    /\ UNCHANGED <<probe, config, soup, soup_copy, cache_file, files, attempt, cur,
                   all_assets, tasks, downloaded_assets, manifest,
                   manifest_writes, index_html, verdict, backoff, capture,
                   history, prev_failed, cache_at_attempt, cache_at_capture>>

\* scrape_banner after _download_assets_with_retry returned True
SaveIndexHtml ==
    /\ pc = "complete"
    /\ index_html' = soup
    /\ pc' = "done"
    /\ UNCHANGED <<probe, config, soup, soup_copy, asset_cache, cache_file, files,
                   _download_failures, attempt, cur, all_assets, tasks,
                   downloaded_assets, manifest, manifest_writes, verdict,
                   backoff, capture, history, prev_failed, cache_at_attempt,
                   cache_at_capture>>

-----------------------------------------------------------------------------
(* _download_assets_with_retry: start and end of an attempt *)

RECURSIVE CollectHtml(_, _, _)
\* _collect_all_assets, the loop over the element attributes
CollectHtml(s, idx, acc) ==
    IF idx = <<>> THEN acc
    ELSE LET i == Head(idx)
             original_url == s[i].val
             normalized_url == _normalize_url(original_url, TRUE)
             old == IF normalized_url \in DOMAIN acc
                    THEN acc[normalized_url]
                    ELSE [type |-> "html_asset",
                          original_url |-> original_url,
                          element_refs |-> <<>>,
                          css_refs |-> <<>>,
                          css_content |-> <<"absent">>]
             new == [old EXCEPT !.element_refs = Append(@, <<i, original_url>>)]
         IN  CollectHtml(s, Tail(idx), Put(acc, normalized_url, new))

\* variant of _reset_download_failure_tracking that keeps the counter
_reset_download_failure_tracking_kept == _download_failures

\* _reset_download_failure_tracking: the counter after it
_reset_download_failure_tracking == 0

StartAttempt ==
    /\ pc = "attempt"
    /\ _download_failures' = _reset_download_failure_tracking
    /\ downloaded_assets' = EmptyMap
    /\ reqs' = EmptyMap
    /\ prev_failed' = IF attempt = 0 THEN {} ELSE fetch_failed
    /\ fetch_failed' = {}
    /\ fetch_ok' = {}
    /\ cache_at_attempt' = DOMAIN asset_cache
    /\ tasks' = NoTasks
    /\ IF parallel_downloads
       THEN /\ soup_copy' = soup
            /\ all_assets' = CollectHtml(soup,
                                 Fetchable(soup, IdxOf(soup, "img", 1)), EmptyMap)
            /\ discovered' = DOMAIN all_assets'
            /\ cur' = [NoCur EXCEPT !.links = IdxOf(soup, "stylesheet", 1)]
            /\ pc' = "collect"
       ELSE /\ cur' = [NoCur EXCEPT
                          !.elems = Fetchable(soup, IdxOf(soup, "img", 1)
                                                  \o IdxOf(soup, "link", 1)),
                          !.links = IdxOf(soup, "stylesheet", 1)]
            /\ discovered' = {}
            /\ pc' = "seq"
            /\ UNCHANGED <<soup_copy, all_assets>>
    /\ UNCHANGED <<probe, config, soup, asset_cache, cache_file, files, attempt,
                   manifest, manifest_writes, index_html, verdict, backoff,
                   capture, cache_at_capture>>

\* variant of attempt_failed that never judges an attempt failed
attempt_failed_never == FALSE

\* line 1982: the test that raises out of the attempt
attempt_failed == _download_failures > 0

\* lines 1978-1997: no failure was recorded; assets.json, return True
AttemptComplete ==
    /\ pc = "verify"
    /\ ~attempt_failed
    /\ IF Cardinality(DOMAIN downloaded_assets) > 0
       THEN /\ manifest' = downloaded_assets
            /\ manifest_writes' = manifest_writes + 1
       ELSE UNCHANGED <<manifest, manifest_writes>>
    /\ verdict' = "Complete"
    /\ pc' = "complete"
    /\ UNCHANGED <<probe, config, soup, soup_copy, asset_cache, cache_file, files,
                   _download_failures, attempt, cur, all_assets, tasks,
                   downloaded_assets, index_html, backoff, capture, history,
                   prev_failed, cache_at_attempt, cache_at_capture>>

\* a backoff of 2 ** attempt seconds
backoff_time_early == 2 ^ attempt

\* line 2003: backoff_time = 2 ** (attempt + 1)
backoff_time == 2 ^ (attempt + 1)

\* lines 1982-1983, 1999-2005: failures were recorded and attempts remain
AttemptFailedRetry ==
    /\ pc = "verify"
    /\ attempt_failed
    /\ attempt < max_retries - 1
    /\ backoff' = backoff_time
    /\ pc' = "backoff"
    /\ UNCHANGED <<probe, config, soup, soup_copy, asset_cache, cache_file, files,
                   _download_failures, attempt, cur, all_assets, tasks,
                   downloaded_assets, manifest, manifest_writes, index_html,
                   verdict, capture, history, prev_failed, cache_at_attempt,
                   cache_at_capture>>

\* time.sleep(backoff_time) is over: the next iteration of the loop
Sleep ==
    /\ pc = "backoff"
    /\ attempt' = attempt + 1
    /\ pc' = "attempt"
    /\ UNCHANGED <<probe, config, soup, soup_copy, asset_cache, cache_file, files,
                   _download_failures, cur, all_assets, tasks,
                   downloaded_assets, manifest, manifest_writes, index_html,
                   verdict, backoff, capture, history, prev_failed,
                   cache_at_attempt, cache_at_capture>>

\* lines 2006-2008: the last attempt failed, return False
AttemptFailedLast ==
    /\ pc = "verify"
    /\ attempt_failed
    /\ ~(attempt < max_retries - 1)
    /\ verdict' = "Failed"
    /\ pc' = "done"
    /\ UNCHANGED <<probe, config, soup, soup_copy, asset_cache, cache_file, files,
                   _download_failures, attempt, cur, all_assets, tasks,
                   downloaded_assets, manifest, manifest_writes, index_html,
                   backoff, capture, history, prev_failed, cache_at_attempt,
                   cache_at_capture>>

\* an increment on a value read before another task's increment: once the
\* counter is positive the update is lost
_record_download_failure_stale ==
    IF _download_failures = 0 THEN _download_failures + 1 ELSE _download_failures

\* _record_download_failure: the counter after it; the read and the write
\* of self._download_failures += 1 have no await between them
_record_download_failure == _download_failures + 1

-----------------------------------------------------------------------------
(* The sequential path: _download_asset and _normalize_urls_in_html *)

\* _download_asset(asset_url, base_url, banner_dir) with the answer resp of
\* the server to the GET, the extension head_ext guessed from the HEAD
\* response and werr, the write of the file failing: what it leaves
_download_asset(asset_url, resp, head_ext, werr) ==
    LET full_url == _normalize_url(asset_url, TRUE)
        named == _generate_unique_filename(full_url)
        guessed == IF named.ext = "" THEN [named EXCEPT !.ext = head_ext]
                   ELSE named
        file == FreeName(guessed, files)
        content == Content(full_url, resp = "ok")
        expected_type == _get_expected_content_type(full_url)
        same == [cache |-> asset_cache, files |-> files,
                 failures |-> _download_failures, saved |-> FALSE,
                 result |-> None, get |-> FALSE, ok |-> FALSE]
    IN  IF full_url \in DOMAIN asset_cache
        THEN [same EXCEPT !.result = asset_cache[full_url]]
        ELSE IF resp \in {"404", "err"}
        THEN [same EXCEPT !.failures = _record_download_failure, !.get = TRUE]
        ELSE IF ~Validated(content, expected_type)
        THEN [same EXCEPT !.failures = _record_download_failure, !.get = TRUE]
        ELSE IF werr
        THEN [same EXCEPT !.failures = _record_download_failure, !.get = TRUE]
        ELSE [same EXCEPT
                 !.get = TRUE, !.ok = TRUE,
                 !.files = Put(files, file, <<"bytes", content>>),
                 !.cache = _cache_downloaded_asset(asset_cache, full_url,
                                                   PathOf(file)),
                 !.saved = TRUE,
                 !.result = PathOf(file)]

\* the effect of one _download_asset call on the state
Downloaded(asset_url, out) ==
    /\ asset_cache' = out.cache
    /\ files' = out.files
    /\ _download_failures' = out.failures
    /\ cache_file' = IF out.saved THEN _save_global_asset_cache(out.cache)
                     ELSE cache_file
    /\ reqs' = IF out.get THEN Inc(reqs, Canon(asset_url)) ELSE reqs
    /\ fetch_failed' = IF out.get /\ ~out.ok
                       THEN fetch_failed \cup {Canon(asset_url)}
                       ELSE fetch_failed
    /\ fetch_ok' = IF out.ok THEN fetch_ok \cup {Canon(asset_url)} ELSE fetch_ok
    /\ discovered' = discovered \cup {Canon(asset_url)}

\* lines 1441-1465: one attribute of one element
SeqElement ==
    /\ pc = "seq"
    /\ cur.elems # <<>>
    /\ LET i == Head(cur.elems)
           original_url == soup[i].val
           full_url == _normalize_url(original_url, TRUE)
       IN  \E resp \in Responses(full_url), head_ext \in HeadExts(full_url),
              werr \in BOOLEAN :
             LET out == _download_asset(full_url, resp, head_ext, werr)
             IN  /\ Downloaded(full_url, out)
                 /\ IF out.result # None
                    THEN /\ downloaded_assets' =
                               Put(downloaded_assets, original_url, out.result)
                         /\ soup' = [soup EXCEPT ![i].val = out.result]
                    ELSE UNCHANGED <<downloaded_assets, soup>>
    /\ cur' = [cur EXCEPT !.elems = Tail(@)]
    /\ UNCHANGED <<probe, config, soup_copy, attempt, pc, all_assets, tasks, manifest,
                   manifest_writes, index_html, verdict, backoff, capture,
                   prev_failed, cache_at_attempt, cache_at_capture>>

\* lines 1468-1513: the GET of one linked stylesheet; an error status or a
\* network error raises into the except of line 1542
SeqCssFetch ==
    /\ pc = "seq"
    /\ cur.elems = <<>>
    /\ cur.css = <<>>
    /\ cur.links # <<>>
    /\ LET link == Head(cur.links)
           href == soup[link].val
           css_url == css_url_of(href)
       IN  \E resp \in Responses(css_url) :
             /\ reqs' = Sent(css_url)
             /\ discovered' = IF Passthrough(css_url) THEN discovered
                               ELSE discovered \cup {Canon(css_url)}
             /\ IF resp \in {"404", "err"}
                THEN /\ fetch_failed' = Failed(css_url)
                     /\ cur' = [cur EXCEPT !.links = Tail(@)]
                ELSE /\ fetch_failed' = fetch_failed
                     /\ cur' = [cur EXCEPT !.css =
                                  << [link |-> link,
                                      css_url |-> css_url,
                                      content |-> Content(css_url, resp = "ok"),
                                      refs |-> CssRefs(Content(css_url, resp = "ok")),
                                      out |-> <<>>] >>]
    /\ UNCHANGED <<probe, config, soup, soup_copy, asset_cache, cache_file, files,
                   _download_failures, attempt, pc, all_assets, tasks,
                   downloaded_assets, manifest, manifest_writes, index_html,
                   verdict, backoff, capture, fetch_ok, prev_failed,
                   cache_at_attempt, cache_at_capture>>

\* _process_css_urls, replace_url for one url(...) of the stylesheet in work
SeqCssUrl ==
    /\ pc = "seq"
    /\ cur.css # <<>>
    /\ cur.css[1].refs # <<>>
    /\ LET original_url == Head(cur.css[1].refs)
           full_url == _normalize_url(original_url, TRUE)
       IN  \E resp \in Responses(full_url), head_ext \in HeadExts(full_url),
              werr \in BOOLEAN :
             LET out == _download_asset(original_url, resp, head_ext, werr)
             IN  /\ Downloaded(original_url, out)
                 /\ IF out.result # None
                    THEN /\ downloaded_assets' =
                               Put(downloaded_assets, original_url, out.result)
                         /\ cur' = [cur EXCEPT !.css[1].refs = Tail(@),
                                               !.css[1].out = Append(@, out.result)]
                    ELSE /\ UNCHANGED downloaded_assets
                         /\ cur' = [cur EXCEPT !.css[1].refs = Tail(@),
                                               !.css[1].out = Append(@, original_url)]
    /\ UNCHANGED <<probe, config, soup, soup_copy, attempt, pc, all_assets, tasks,
                   manifest, manifest_writes, index_html, verdict, backoff,
                   capture, prev_failed, cache_at_attempt, cache_at_capture>>

\* lines 1518-1540: the processed stylesheet is written and cached; a write
\* that fails raises into the except of line 1542
SeqCssSave ==
    /\ pc = "seq"
    /\ cur.css # <<>>
    /\ cur.css[1].refs = <<>>
    /\ LET css_url == cur.css[1].css_url
           href == soup[cur.css[1].link].val
           css_base_filename ==
               [_generate_unique_filename(css_url) EXCEPT !.ext = ".css"]
           css_filename == PathOf(css_base_filename)
       IN  \E werr \in BOOLEAN :
             IF werr
             THEN UNCHANGED <<files, asset_cache, cache_file, soup,
                             downloaded_assets, fetch_ok>>
             ELSE /\ files' = Put(files, css_base_filename,
                                  <<"css", cur.css[1].content, cur.css[1].out>>)
                  /\ asset_cache' =
                         _cache_downloaded_asset(asset_cache, css_url, css_filename)
                  /\ soup' = [soup EXCEPT ![cur.css[1].link].val = css_filename]
                  /\ downloaded_assets' = Put(downloaded_assets, href, css_filename)
                  /\ cache_file' = _save_global_asset_cache(asset_cache')
                  /\ fetch_ok' = fetch_ok \cup {Canon(css_url)}
    /\ cur' = [cur EXCEPT !.css = <<>>, !.links = Tail(@)]
    /\ UNCHANGED <<probe, config, soup_copy, _download_failures, attempt, pc,
                   all_assets, tasks, manifest, manifest_writes, index_html,
                   verdict, backoff, capture, reqs, fetch_failed, discovered,
                   prev_failed, cache_at_attempt, cache_at_capture>>

\* line 1548: _normalize_urls_in_html returns
SeqReturn ==
    /\ pc = "seq"
    /\ cur = NoCur
    /\ pc' = "verify"
    /\ UNCHANGED <<probe, config, soup, soup_copy, asset_cache, cache_file, files,
                   _download_failures, attempt, cur, all_assets, tasks,
                   downloaded_assets, manifest, manifest_writes, index_html,
                   verdict, backoff, capture, history, prev_failed,
                   cache_at_attempt, cache_at_capture>>

-----------------------------------------------------------------------------
(* The parallel path: _collect_all_assets, _download_all_assets_unified,   *)
(* _download_assets_parallel, _download_asset_async,                       *)
(* _update_html_with_unified_assets                                        *)

RECURSIVE CollectCssRefs(_, _, _)
\* lines 1638-1657: the url(...) references of one stylesheet text
CollectCssRefs(refs, css_url, acc) ==
    IF refs = <<>> THEN acc
    ELSE LET css_asset_url == Head(refs)
             normalized_css_asset == _normalize_url(css_asset_url, TRUE)
             old == IF normalized_css_asset \in DOMAIN acc
                    THEN acc[normalized_css_asset]
                    ELSE [type |-> "css_asset",
                          original_url |-> css_asset_url,
                          element_refs |-> <<>>,
                          css_refs |-> <<>>,
                          css_content |-> <<"absent">>]
             new == [old EXCEPT !.css_refs =
                        Append(@, [css_url |-> css_url,
                                   original_css_asset_url |-> css_asset_url])]
         IN  CollectCssRefs(Tail(refs), css_url,
                            Put(acc, normalized_css_asset, new))

\* lines 1598-1663: one linked stylesheet; its text is fetched here, with a
\* GET that does not look at the cache
CollectCss ==
    /\ pc = "collect"
    /\ cur.links # <<>>
    /\ LET link == Head(cur.links)
           href == soup_copy[link].val
           css_url == _normalize_url(href, TRUE)
           entry == IF css_url \in DOMAIN all_assets
                    THEN all_assets[css_url]
                    ELSE [type |-> "css_file",
                          original_url |-> href,
                          element_refs |-> << <<link, href>> >>,
                          css_refs |-> <<>>,
                          css_content |-> <<"absent">>]
       IN  \E resp \in Responses(css_url) :
             /\ reqs' = Sent(css_url)
             /\ IF resp \in {"404", "err"}
                THEN /\ all_assets' =
                          Put(all_assets, css_url,
                              [entry EXCEPT !.css_content = None])
                     /\ fetch_failed' = Failed(css_url)
                ELSE /\ all_assets' =
                          CollectCssRefs(
                              CssRefs(Content(css_url, resp = "ok")), css_url,
                              Put(all_assets, css_url,
                                  [entry EXCEPT !.css_content =
                                      <<"text", Content(css_url, resp = "ok")>>]))
                     /\ fetch_failed' = fetch_failed
             /\ discovered' = {u \in DOMAIN all_assets' : ~Passthrough(u)}
    /\ cur' = [cur EXCEPT !.links = Tail(@)]
    /\ UNCHANGED <<probe, config, soup, soup_copy, asset_cache, cache_file, files,
                   _download_failures, attempt, pc, tasks, downloaded_assets,
                   manifest, manifest_writes, index_html, verdict, backoff,
                   capture, fetch_ok, prev_failed, cache_at_attempt,
                   cache_at_capture>>

\* lines 1680-1684: the collected URLs that are downloaded
downloadable_assets == {u \in DOMAIN all_assets : ~Passthrough(u)}

\* _download_all_assets_unified up to the creation of the tasks in
\* _download_assets_parallel (lines 1680-1698, 1195-1218)
_download_all_assets_unified ==
    /\ pc = "collect"
    /\ cur.links = <<>>
    /\ IF downloadable_assets = {}
       THEN /\ pc' = "update"
            /\ tasks' = NoTasks
       ELSE /\ pc' = "batch"
            /\ tasks' = [k \in downloadable_assets |->
                            [st |-> "new", file |-> NoFile, result |-> None]]
    /\ UNCHANGED <<probe, config, soup, soup_copy, asset_cache, cache_file, files,
                   _download_failures, attempt, cur, all_assets,
                   downloaded_assets, manifest, manifest_writes, index_html,
                   verdict, backoff, capture, history, prev_failed,
                   cache_at_attempt, cache_at_capture>>

\* tasks inside "async with semaphore" that have not finished
InFlight == Cardinality({k \in DOMAIN tasks : tasks[k].st = "get"})

\* a semaphore that lets every task in
semaphore_unbounded == TRUE

\* async with semaphore (line 1213) can be entered: fewer than
\* max_concurrent tasks hold it
semaphore_free == InFlight < max_concurrent

\* _download_asset_async, lines 1091-1118: cache lookup, file name, GET sent
TaskStart(k) ==
    /\ pc = "batch"
    /\ tasks[k].st = "new"
    /\ semaphore_free
    /\ LET full_url == _normalize_url(k, FALSE)
       IN  IF full_url \in DOMAIN asset_cache
           THEN /\ tasks' = [tasks EXCEPT ![k].st = "done",
                                          ![k].result = asset_cache[full_url]]
                /\ reqs' = reqs
           ELSE /\ tasks' = [tasks EXCEPT
                               ![k].st = "get",
                               ![k].file = FreeName(
                                   _generate_unique_filename(full_url), files)]
                /\ reqs' = Inc(reqs, full_url)
    /\ UNCHANGED <<probe, config, soup, soup_copy, asset_cache, cache_file, files,
                   _download_failures, attempt, pc, cur, all_assets,
                   downloaded_assets, manifest, manifest_writes, index_html,
                   verdict, backoff, capture, fetch_failed, fetch_ok,
                   discovered, prev_failed, cache_at_attempt, cache_at_capture>>

\* lines 1118-1179: status, body, validation, the file is written and the
\* entry committed; an error status, a rejected content and a write that
\* raises are recorded as a failure
TaskResponse(k) ==
    /\ pc = "batch"
    /\ tasks[k].st = "get"
    /\ LET full_url == _normalize_url(k, FALSE)
           expected_type == _get_expected_content_type(full_url)
           relative_path == PathOf(tasks[k].file)
       IN  \E resp \in Responses(full_url), werr \in BOOLEAN :
             IF \/ resp \in {"404", "err"}
                \/ ~Validated(Content(full_url, resp = "ok"), expected_type)
                \/ werr
             THEN /\ _download_failures' = _record_download_failure
                  /\ tasks' = [tasks EXCEPT ![k].st = "done"]
                  /\ fetch_failed' = fetch_failed \cup {full_url}
                  /\ UNCHANGED <<files, asset_cache, fetch_ok>>
             ELSE /\ files' = Put(files, tasks[k].file,
                                  <<"bytes", Content(full_url, TRUE)>>)
                  /\ asset_cache' = _cache_downloaded_asset(asset_cache, full_url,
                                                            relative_path)
                  /\ tasks' = [tasks EXCEPT ![k].st = "done",
                                            ![k].result = relative_path]
                  /\ fetch_ok' = fetch_ok \cup {full_url}
                  /\ UNCHANGED <<_download_failures, fetch_failed>>
    /\ UNCHANGED <<probe, config, soup, soup_copy, cache_file, attempt, pc, cur,
                   all_assets, downloaded_assets, manifest, manifest_writes,
                   index_html, verdict, backoff, capture, reqs, discovered,
                   prev_failed, cache_at_attempt, cache_at_capture>>

\* the dictionary _download_assets_parallel returns
downloaded_assets_unified ==
    [k \in {x \in DOMAIN tasks : tasks[x].result # None} |-> tasks[k].result]

\* lines 1236-1252: the batch is over; every task without a path is recorded
\* as a failure once more
\* a loop that stops at the first task that returned no path
completed_or_failed ==
    \/ \A k \in DOMAIN tasks : tasks[k].st = "done"
    \/ \E k \in DOMAIN tasks : tasks[k].st = "done" /\ tasks[k].result = None

\* for coro in asyncio.as_completed(tasks) (lines 1220-1221) is over: every
\* task has returned
all_completed == \A k \in DOMAIN tasks : tasks[k].st = "done"

BatchEnd ==
    /\ pc = "batch"
    /\ all_completed
    /\ cache_file' = _save_global_asset_cache(asset_cache)
    /\ _download_failures' = _download_failures
           + (Cardinality(DOMAIN tasks)
              - Cardinality(DOMAIN downloaded_assets_unified))
    /\ pc' = "update"
    /\ UNCHANGED <<probe, config, soup, soup_copy, asset_cache, files, attempt, cur,
                   all_assets, tasks, downloaded_assets, manifest,
                   manifest_writes, index_html, verdict, backoff, capture,
                   history, prev_failed, cache_at_attempt, cache_at_capture>>

\* _update_css_urls: the url(...) arguments of a stylesheet text, rewritten
_update_css_urls(css_content, assets, downloaded) ==
    [j \in 1..Len(CssRefs(css_content)) |->
        LET original_url == CssRefs(css_content)[j]
            hits == {n \in DOMAIN assets :
                       /\ \E c \in 1..Len(assets[n].css_refs) :
                             assets[n].css_refs[c].original_css_asset_url
                                 = original_url
                       /\ n \in DOMAIN downloaded}
        IN  IF hits # {} THEN downloaded[CHOOSE n \in hits : TRUE]
            ELSE original_url]

\* the normalized URLs whose processed stylesheet text is saved
CssToSave(assets, downloaded) ==
    {n \in DOMAIN assets \cap DOMAIN downloaded :
        /\ assets[n].type = "css_file"
        /\ assets[n].css_content[1] = "text"}

RECURSIVE SetElements(_, _, _)
\* element[attr] = local_path for the element references of one asset
SetElements(s, refs, local_path) ==
    IF refs = <<>> THEN s
    ELSE SetElements([s EXCEPT ![Head(refs)[1]].val = local_path],
                     Tail(refs), local_path)

RECURSIVE UpdateElements(_, _, _, _)
UpdateElements(s, assets, downloaded, keys) ==
    IF keys = {} THEN s
    ELSE LET n == CHOOSE x \in keys : TRUE
         IN  UpdateElements(
                 SetElements(s, assets[n].element_refs, downloaded[n]),
                 assets, downloaded, keys \ {n})

\* result_mapping of _update_html_with_unified_assets
ResultMapping(assets, downloaded) ==
    LET refs == {<<n, i>> \in (DOMAIN assets \cap DOMAIN downloaded) \X (1..8) :
                    i <= Len(assets[n].element_refs)}
        originals == {assets[r[1]].element_refs[r[2]][2] : r \in refs}
    IN  [o \in originals |->
            LET r == CHOOSE x \in refs :
                        assets[x[1]].element_refs[x[2]][2] = o
            IN  downloaded[r[1]]]

\* lines 1967-1973 with _update_html_with_unified_assets: the elements are
\* those of the copy all_assets was collected from
Update ==
    /\ pc = "update"
    /\ LET unified == downloaded_assets_unified
       IN  IF Cardinality(DOMAIN unified) * 10 >= Cardinality(DOMAIN all_assets) * 8
           THEN /\ soup_copy' = UpdateElements(soup_copy, all_assets, unified,
                                    DOMAIN all_assets \cap DOMAIN unified)
                /\ downloaded_assets' = ResultMapping(all_assets, unified)
                /\ \E unwritable \in SUBSET CssToSave(all_assets, unified) :
                      files' = [f \in DOMAIN files \cup
                                     {unified[n][3] : n \in CssToSave(all_assets, unified)} |->
                                  LET owners == {n \in CssToSave(all_assets, unified) :
                                                    unified[n][3] = f}
                                  IN  IF owners = {} THEN files[f]
                                      ELSE LET n == CHOOSE x \in owners : TRUE
                                           IN  IF n \in unwritable
                                               THEN files[f]
                                               ELSE <<"css",
                                                      all_assets[n].css_content[2],
                                                      _update_css_urls(
                                                          all_assets[n].css_content[2],
                                                          all_assets, unified)>>]
           ELSE /\ downloaded_assets' = unified
                /\ UNCHANGED <<soup_copy, files>>
    /\ pc' = "verify"
    /\ UNCHANGED <<probe, config, soup, asset_cache, cache_file, _download_failures,
                   attempt, cur, all_assets, tasks, manifest, manifest_writes,
                   index_html, verdict, backoff, capture, history, prev_failed,
                   cache_at_attempt, cache_at_capture>>

-----------------------------------------------------------------------------

Next ==
    \/ scrape_banner
    \/ NewInstance
    \/ SaveIndexHtml
    \/ StartAttempt
    \/ AttemptComplete
    \/ AttemptFailedRetry
    \/ Sleep
    \/ AttemptFailedLast
    \/ SeqElement
    \/ SeqCssFetch
    \/ SeqCssUrl
    \/ SeqCssSave
    \/ SeqReturn
    \/ CollectCss
    \/ _download_all_assets_unified
    \/ \E k \in DOMAIN tasks : TaskStart(k)
    \/ \E k \in DOMAIN tasks : TaskResponse(k)
    \/ BatchEnd
    \/ Update

Spec == Init /\ [][Next]_vars

-----------------------------------------------------------------------------
(* _normalize_url on the text of a URL.                                    *)
(* A text is a sequence of tokens <<c, n>>: the character c percent-encoded *)
(* n times (n = 0: the character itself; " " twice is %2520). The          *)
(* characters are no hexadecimal digits, so a "%" never joins what follows  *)
(* it to a new escape. The scheme with the host is one token.               *)

MaxEnc == 2

Chars == {"x", " ", "#", "%", "="}

Cdn == <<"https://cdn.example.com", 0>>

\* the same host as Cdn, spelled with capital letters
CdnUpper == <<"https://CDN.Example.com", 0>>

Fonts == <<"https://fonts.googleapis.com", 0>>

Slash == <<"/", 0>>

QMark == <<"?", 0>>

Hash == <<"#", 0>>

Semi == <<";", 0>>

DataScheme == <<"data:", 0>>

JavascriptScheme == <<"javascript:", 0>>

\* the page URL, base_url of the references of the markup
BaseUrl == <<Cdn, Slash, <<"x", 0>>>>

\* url.startswith(('http://', 'https://'))
IsAbsolute(url) == url # <<>> /\ url[1] \in {Cdn, CdnUpper, Fonts}

\* str.lower() of a host
lower(netloc) ==
    [i \in DOMAIN netloc |-> IF netloc[i] = CdnUpper THEN Cdn ELSE netloc[i]]

\* url.startswith(('data:', 'javascript:', '#'))
StartsPassthrough(url) ==
    url # <<>> /\ url[1] \in {DataScheme, JavascriptScheme, Hash}

\* position of the first token t of text, 0 if there is none
Find(text, t) ==
    IF \E i \in DOMAIN text : text[i] = t
    THEN CHOOSE i \in DOMAIN text :
            text[i] = t /\ \A j \in 1..(i - 1) : text[j] # t
    ELSE 0

\* position of the last token t of text, 0 if there is none
FindLast(text, t) ==
    IF \E i \in DOMAIN text : text[i] = t
    THEN CHOOSE i \in DOMAIN text :
            text[i] = t /\ \A j \in (i + 1)..Len(text) : text[j] # t
    ELSE 0

\* urllib.parse.unquote: one level of percent-decoding
unquote(text) ==
    [i \in DOMAIN text |->
        IF text[i][2] > 0 THEN <<text[i][1], text[i][2] - 1>> ELSE text[i]]

RECURSIVE unquote_all(_)
\* lines 164-172, 188-196: while decoded != previous_decoded: unquote
unquote_all(text) ==
    IF unquote(text) = text THEN text ELSE unquote_all(unquote(text))

\* urllib.parse.quote(text, safe): letters are never encoded, "%" always is
quote(text, safe) ==
    [i \in DOMAIN text |->
        IF text[i][2] = 0 /\ text[i][1] \in {"x"} \cup safe
        THEN text[i]
        ELSE <<text[i][1], text[i][2] + 1>>]

\* position of the first token t of text behind position from, 0 if none
FindAfter(text, t, from) ==
    IF \E i \in DOMAIN text : i > from /\ text[i] = t
    THEN CHOOSE i \in DOMAIN text :
            i > from /\ text[i] = t /\ \A j \in (from + 1)..(i - 1) : text[j] # t
    ELSE 0

\* text[:i], the whole text when there is no position i
Before(text, i) == IF i = 0 THEN text ELSE SubSeq(text, 1, i - 1)

\* text[i+1:], nothing when there is no position i
After(text, i) == IF i = 0 THEN <<>> ELSE SubSeq(text, i + 1, Len(text))

\* urllib.parse.urlparse: the parameters are what follows the first ";" of
\* the last segment of the path
urlparse(text) ==
    LET rest == IF IsAbsolute(text) THEN Tail(text) ELSE text
        nofrag == Before(rest, Find(rest, Hash))
        noquery == Before(nofrag, Find(nofrag, QMark))
        p == FindAfter(noquery, Semi, FindLast(noquery, Slash))
    IN  [netloc |-> IF IsAbsolute(text) THEN <<text[1]>> ELSE <<>>,
         path |-> Before(noquery, p),
         params |-> After(noquery, p),
         query |-> After(nofrag, Find(nofrag, QMark)),
         fragment |-> After(rest, Find(rest, Hash))]

\* urllib.parse.urlunparse: empty parameters, an empty query or an empty
\* fragment leave no ";", "?" or "#"
urlunparse(parsed) ==
    parsed.netloc \o parsed.path
        \o (IF parsed.params = <<>> THEN <<>> ELSE <<Semi>> \o parsed.params)
        \o (IF parsed.query = <<>> THEN <<>> ELSE <<QMark>> \o parsed.query)
        \o (IF parsed.fragment = <<>> THEN <<>> ELSE <<Hash>> \o parsed.fragment)

\* urllib.parse.urljoin(base_url, url) for a relative url
urljoin(base_url, url) ==
    LET base == urlparse(base_url)
        dir == SubSeq(base.path, 1, FindLast(base.path, Slash))
    IN  IF url[1] = QMark THEN base.netloc \o base.path \o url
        ELSE IF url[1] = Slash THEN base.netloc \o url
        ELSE base.netloc \o dir \o url

\* variant of encoded_path that decodes every part once only
encoded_path_decoded_once(path) ==
    [i \in DOMAIN path |->
        IF path[i] = Slash THEN Slash
        ELSE quote(unquote(<<path[i]>>), {"-", ".", "_", "~"})[1]]

\* lines 157-180: every part of the path is decoded to the end and encoded
\* once; the "/" between the parts stay
encoded_path(path) ==
    [i \in DOMAIN path |->
        IF path[i] = Slash THEN Slash
        ELSE quote(unquote_all(<<path[i]>>), {"-", ".", "_", "~"})[1]]

\* lines 183-208: the query of the font service is decoded to the end and
\* kept; any other query is decoded once and encoded once
encoded_query(parsed) ==
    IF parsed.query = <<>> THEN <<>>
    ELSE IF lower(parsed.netloc) = <<Fonts>> THEN unquote_all(parsed.query)
    ELSE quote(unquote(parsed.query), {"=", "&"})

\* _normalize_url(url, base_url) on texts
normalized_url(url, base_url) ==
    IF url = <<>> \/ StartsPassthrough(url) THEN url
    ELSE IF ~IsAbsolute(url) /\ base_url = <<>> THEN url
    ELSE LET full_url == IF IsAbsolute(url) THEN url
                         ELSE urljoin(base_url, url)
             parsed == urlparse(full_url)
         IN  urlunparse([netloc |-> parsed.netloc,
                         path |-> encoded_path(parsed.path),
                         params |-> parsed.params,
                         query |-> encoded_query(parsed),
                         fragment |-> parsed.fragment])

\* the tokens a path segment or a query is drawn from: no bare "#"
Tokens == {<<c, n>> : c \in Chars, n \in 0..MaxEnc} \ {Hash}

\* the references: relative or absolute, one path segment, with or without a
\* query; a query alone; a host in either letter case with parameters and a
\* fragment; and references that are no URLs to fetch
Refs ==
    {pre \o <<t>> \o q :
        pre \in {<<>>, <<Cdn, Slash>>, <<Fonts, Slash>>},
        t \in Tokens,
        q \in {<<>>} \cup {<<QMark, u>> : u \in Tokens}}
    \cup {<<QMark, u>> : u \in Tokens}
    \cup {<<h, Slash, <<"x", 0>>>> \o p \o q \o f :
            h \in {Cdn, CdnUpper},
            p \in {<<>>, <<Semi, <<" ", 1>>>>},
            q \in {<<>>, <<QMark, <<" ", 2>>>>},
            f \in {<<>>, <<Hash, <<" ", 1>>>>}}
    \cup {<<p, <<"x", 0>>>> : p \in {DataScheme, JavascriptScheme, Hash}}

\* the same reference with every escape of its path encoded once only
Singly(url) ==
    LET h == Find(url, Hash)
        q == Find(url, QMark)
        end == IF q # 0 THEN q ELSE IF h # 0 THEN h ELSE Len(url) + 1
    IN  [i \in DOMAIN url |->
            IF i < end /\ url[i][2] > 1 THEN <<url[i][1], 1>> ELSE url[i]]

\* the same reference with its host in lower case
LowerHost(url) ==
    IF IsAbsolute(url) THEN lower(<<url[1]>>) \o Tail(url) ELSE url

\* the same reference with every escape of its query encoded once only
SinglyQuery(url) ==
    LET h == Find(url, Hash)
        q == Find(url, QMark)
        end == IF h # 0 THEN h ELSE Len(url) + 1
    IN  [i \in DOMAIN url |->
            IF q # 0 /\ q < i /\ i < end /\ url[i][2] > 1
            THEN <<url[i][1], 1>> ELSE url[i]]

\* the spellings a second reference to the same resource is normalised under
Second == {"singly", "lower", "qsingly"}

\* what the capture keeps unchanged while one reference is normalised
rest == <<config, soup, soup_copy, cache_file, files, _download_failures,
          attempt, pc, cur, all_assets, tasks, downloaded_assets, manifest,
          manifest_writes, index_html, verdict, backoff, capture, history,
          prev_failed, cache_at_attempt, cache_at_capture, v_in, v_out>>

\* the local path of a URL text, as _download_asset commits it
LocalPath(url) == PathOf([h |-> url, n |-> 0, ext |-> ""])

InitNorm ==
    /\ parallel_downloads = FALSE
    /\ global_assets = FALSE
    /\ page = <<>>
    /\ dead = {}
    /\ Constructed
    /\ n_url \in Refs
    /\ n_out = EmptyMap
    /\ v_in = None
    /\ v_out = <<>>

\* line 1458 (1272): the reference is normalised and, once downloaded,
\* committed under the normalised URL
Normalize ==
    /\ n_url # <<>>
    /\ "once" \notin DOMAIN n_out
    /\ LET full_url == normalized_url(n_url, BaseUrl)
       IN  /\ n_out' = Put(n_out, "once", full_url)
           /\ asset_cache' = IF StartsPassthrough(n_url) THEN asset_cache
                             ELSE _cache_downloaded_asset(asset_cache, full_url,
                                                          LocalPath(full_url))
    /\ UNCHANGED <<rest, n_url>>

\* lines 1458, 1461 and 1272: _download_asset normalises again the URL that
\* _normalize_urls_in_html has normalised
NormalizeAgain ==
    /\ "once" \in DOMAIN n_out
    /\ "again" \notin DOMAIN n_out
    /\ n_out' = Put(n_out, "again", normalized_url(n_out["once"], BaseUrl))
    /\ UNCHANGED <<rest, n_url, asset_cache>>

\* a second reference to the same resource, with its path encoded once
NormalizeSingly ==
    /\ n_url # <<>>
    /\ DOMAIN n_out \cap Second = {}
    /\ LET full_url == normalized_url(Singly(n_url), BaseUrl)
       IN  /\ n_out' = Put(n_out, "singly", full_url)
           /\ asset_cache' = IF StartsPassthrough(n_url) THEN asset_cache
                             ELSE _cache_downloaded_asset(asset_cache, full_url,
                                                          LocalPath(full_url))
    /\ UNCHANGED <<rest, n_url>>

\* a second reference to the same resource, with its host in lower case
NormalizeLowerHost ==
    /\ n_url # <<>>
    /\ DOMAIN n_out \cap Second = {}
    /\ LET full_url == normalized_url(LowerHost(n_url), BaseUrl)
       IN  /\ n_out' = Put(n_out, "lower", full_url)
           /\ asset_cache' = IF StartsPassthrough(n_url) THEN asset_cache
                             ELSE _cache_downloaded_asset(asset_cache, full_url,
                                                          LocalPath(full_url))
    /\ UNCHANGED <<rest, n_url>>

\* a second reference to the same resource, with its query encoded once
NormalizeSinglyQuery ==
    /\ n_url # <<>>
    /\ DOMAIN n_out \cap Second = {}
    /\ LET full_url == normalized_url(SinglyQuery(n_url), BaseUrl)
       IN  /\ n_out' = Put(n_out, "qsingly", full_url)
           /\ asset_cache' = IF StartsPassthrough(n_url) THEN asset_cache
                             ELSE _cache_downloaded_asset(asset_cache, full_url,
                                                          LocalPath(full_url))
    /\ UNCHANGED <<rest, n_url>>

NextNorm ==
    \/ Normalize
    \/ NormalizeAgain
    \/ NormalizeSingly
    \/ NormalizeLowerHost
    \/ NormalizeSinglyQuery

SpecNorm == InitNorm /\ [][NextNorm]_vars

\* C11: normalising the result of _normalize_url once more returns it
\* unchanged, for every reference and for the URLs of the font service too.
C11_NormalizeIdempotent ==
    "again" \in DOMAIN n_out => n_out["again"] = n_out["once"]

\* C12: a reference whose path is percent-encoded twice or more normalises to
\* the same URL as the reference with the path encoded once, and once both
\* are committed the cache holds one entry for them.
C12_DoubleEncodingCollapses ==
    {"once", "singly"} \subseteq DOMAIN n_out =>
        /\ n_out["once"] = n_out["singly"]
        /\ Cardinality(DOMAIN asset_cache) <= 1

\* C12, its case: both spellings of a path with a double escape committed
C12_Witness ==
    /\ {"once", "singly"} \subseteq DOMAIN n_out
    /\ Singly(n_url) # n_url
    /\ \E i \in DOMAIN n_url : n_url[i] = <<" ", 2>>
    /\ Cardinality(DOMAIN asset_cache) = 1

\* C28: the host of every URL _normalize_url returns is in lower case, so two
\* references that differ in the letter case of the host only normalise to
\* the same URL and share one cache entry; the parameters and the fragment of
\* the reference are those of the result.
C28_HostLowerCased ==
    {"once", "lower"} \subseteq DOMAIN n_out =>
        /\ IsAbsolute(n_out["once"]) =>
                <<n_out["once"][1]>> = lower(<<n_out["once"][1]>>)
        /\ n_out["once"] = n_out["lower"]
        /\ Cardinality(DOMAIN asset_cache) <= 1
        /\ IsAbsolute(n_url) =>
                /\ urlparse(n_out["once"]).params = urlparse(n_url).params
                /\ urlparse(n_out["once"]).fragment = urlparse(n_url).fragment

\* C29: off the font service, a reference whose query is percent-encoded
\* twice or more normalises to the same URL as the reference with the query
\* encoded once.
C29_QueryEncodingCollapses ==
    (/\ {"once", "qsingly"} \subseteq DOMAIN n_out
     /\ lower(urlparse(n_out["once"]).netloc) # <<Fonts>>) =>
        n_out["once"] = n_out["qsingly"]

-----------------------------------------------------------------------------------------------------------------------------------------------------
(* _download_asset_async on a 200 response of any body and header *)

\* URLs of every category of _get_expected_content_type
Fetched == {<<"web", id>> : id \in {"a", "s", "j", "f", "t", "g", "o"}}

\* the variables the fetch of one response leaves alone
kept == <<config, soup, soup_copy, cache_file, attempt, pc, cur, all_assets,
          tasks, downloaded_assets, manifest, manifest_writes, index_html,
          verdict, backoff, capture, history, prev_failed, cache_at_attempt,
          cache_at_capture, n_url, n_out, v_in>>

InitFetch ==
    /\ parallel_downloads = TRUE
    /\ global_assets \in BOOLEAN
    /\ page = <<>>
    /\ dead = {}
    /\ Constructed
    /\ n_url = <<>>
    /\ n_out = EmptyMap
    /\ v_in \in [asset_url : Fetched, content : Bodies,
                 content_type_header : Headers]
    /\ v_out = <<>>

\* lines 1141-1179: the body is read and validated, the file written and the
\* cache entry committed; a rejected body and a write that raises are
\* recorded as a failure and nothing is returned
DownloadBody ==
    /\ v_out = <<>>
    /\ LET full_url == _normalize_url(v_in.asset_url, FALSE)
           expected_type == _get_expected_content_type(full_url)
           file == FreeName(_generate_unique_filename(full_url), files)
           relative_path == PathOf(file)
       IN  \E werr \in BOOLEAN :
             IF ~_validate_content_type(v_in.content, expected_type,
                                        v_in.content_type_header)
             THEN /\ _download_failures' = _record_download_failure
                  /\ v_out' = <<"rejected">>
                  /\ UNCHANGED <<files, asset_cache>>
             ELSE IF werr
             THEN /\ _download_failures' = _record_download_failure
                  /\ v_out' = <<"write_error">>
                  /\ UNCHANGED <<files, asset_cache>>
             ELSE /\ files' = Put(files, file, <<"bytes", v_in.content>>)
                  /\ asset_cache' = _cache_downloaded_asset(asset_cache, full_url,
                                                            relative_path)
                  /\ v_out' = <<"saved", relative_path>>
                  /\ UNCHANGED _download_failures
    /\ UNCHANGED kept

NextFetch == DownloadBody

SpecFetch == InitFetch /\ [][NextFetch]_vars

\* the category the fetch expects of the response
v_type == _get_expected_content_type(_normalize_url(v_in.asset_url, FALSE))

\* C15: when a check of the validator raises, _validate_content_type accepts
\* the body, and the fetch, unless its write fails, stores the body and
\* commits a cache entry for it without recording a failure.
C15_RaisingCheckAccepts ==
    (v_out # <<>> /\ _validate_by_magic_bytes(v_in.content, v_type) = "raise") =>
        /\ _validate_content_type(v_in.content, v_type, v_in.content_type_header)
        /\ v_out[1] # "rejected"
        /\ v_out[1] = "saved" =>
               /\ v_in.asset_url \in DOMAIN asset_cache
               /\ asset_cache[v_in.asset_url] = v_out[2]
               /\ v_out[2][3] \in DOMAIN files
               /\ files[v_out[2][3]] = <<"bytes", v_in.content>>
               /\ _download_failures = 0

\* a font body of 36 bytes without a signature and without a header is saved
C15_Witness ==
    /\ v_out # <<>>
    /\ v_out[1] = "saved"
    /\ v_type = "font"
    /\ v_in.content.size = 36
    /\ v_in.content.magic = "none"
    /\ v_in.content_type_header = ""
    /\ DOMAIN asset_cache = {v_in.asset_url}

-----------------------------------------------------------------------------
(* _download_assets_parallel on a page of up to BatchSize images *)

\* the URLs the cache file of an earlier run may hold
Preloaded == {{}, {<<"web", BatchNames[1]>>}}

InitBatch ==
    /\ parallel_downloads = TRUE
    /\ global_assets \in BOOLEAN
    /\ page \in {BatchPage(n) : n \in 0..BatchSize} \cup {TwinPage}
    /\ dead = {}
    /\ \E cached \in (IF global_assets THEN Preloaded ELSE {{}}) :
          /\ asset_cache =
                 [u \in cached |-> PathOf(_generate_unique_filename(u))]
          /\ files = [f \in {_generate_unique_filename(u) : u \in cached} |->
                         <<"bytes", Content(f.h, TRUE)>>]
    /\ cache_file = asset_cache
    /\ Started
    /\ n_url = <<>>
    /\ n_out = EmptyMap
    /\ v_in = None
    /\ v_out = <<>>

\* the capture up to the return of _download_assets_parallel
NextBatch ==
    \/ scrape_banner
    \/ StartAttempt
    \/ _download_all_assets_unified
    \/ \E k \in DOMAIN tasks : TaskStart(k)
    \/ \E k \in DOMAIN tasks : TaskResponse(k)
    \/ BatchEnd

SpecBatch == InitBatch /\ [][NextBatch]_vars

\* the event loop runs every task that can run, and a request ends after
\* the session's timeout at the latest
SpecBatchFair == SpecBatch /\ WF_vars(NextBatch)

\* C16: at most max_concurrent fetches are in flight at any moment of a
\* batch, and every task of the batch eventually acquires the semaphore: a
\* batch leads to a state where no task still waits for it.
C16_BoundedInFlightAndNoStarvation ==
    /\ [](InFlight <= max_concurrent)
    /\ (pc = "batch") ~> (\A k \in DOMAIN tasks : tasks[k].st # "new")

\* the semaphore is full and a task waits for it
C16_Witness ==
    /\ pc = "batch"
    /\ InFlight = max_concurrent
    /\ \E k \in DOMAIN tasks : tasks[k].st = "new"

\* the tasks that returned no path
FailedTasks == {k \in DOMAIN tasks : tasks[k].st = "done" /\ tasks[k].result = None}

\* the tasks that returned a path
ServedTasks == {k \in DOMAIN tasks : tasks[k].result # None}

\* C21: in every interleaving of the tasks of a batch the failure counter
\* is the number of failures recorded so far (one per failed task during
\* the batch and one more per failed task at its end), and the cache holds
\* what it held before the batch and every entry a task committed.
C21_NoLostUpdate ==
    pc \in {"batch", "update"} =>
        /\ _download_failures =
               IF pc = "batch" THEN Cardinality(FailedTasks)
               ELSE 2 * Cardinality(FailedTasks)
        /\ DOMAIN asset_cache = cache_at_capture \cup ServedTasks
        /\ \A k \in ServedTasks : asset_cache[k] = tasks[k].result

\* two tasks failed and two committed while others were in flight
C21_Witness ==
    /\ pc = "batch"
    /\ InFlight >= 2
    /\ Cardinality(FailedTasks) >= 2
    /\ Cardinality(ServedTasks \cap fetch_ok) >= 2

\* C22: two distinct canonical URLs of the cache never have the same local
\* file, and the file of each holds the content of that URL.
C22_DistinctUrlsDistinctFiles ==
    \A u, v \in DOMAIN asset_cache :
        /\ u # v => asset_cache[u] # asset_cache[v]
        /\ files[asset_cache[u][3]][2].src = u

\* C17: when the batch has returned, every reference handed to it has a
\* result: a path (from the cache or downloaded) or a recorded failure.
C17_EveryReferenceReachesResult ==
    pc = "update" =>
        /\ DOMAIN tasks = downloadable_assets
        /\ \A k \in DOMAIN tasks :
              /\ tasks[k].st = "done"
              /\ \/ tasks[k].result # None /\ asset_cache[k] = tasks[k].result
                 \/ tasks[k].result = None /\ k \in fetch_failed

\* a batch that returned with a failed reference, a downloaded one and one
\* served from the cache
C17_Witness ==
    /\ pc = "update"
    /\ \E k \in DOMAIN tasks : tasks[k].result = None
    /\ \E k \in DOMAIN tasks : tasks[k].result # None /\ k \in fetch_ok
    /\ \E k \in DOMAIN tasks :
          tasks[k].result # None /\ k \notin fetch_ok /\ Count(reqs, k) = 0

-----
(* Properties of the capture *)

\* the capture has been judged Complete
Complete == pc \in {"complete", "done"} /\ verdict = "Complete"

\* canonical URLs that had a cache entry when the attempt started
CommittedBefore == {Canon(u) : u \in cache_at_attempt}

\* canonical URLs that had a cache entry when the capture started
CommittedEarlier == {Canon(u) : u \in cache_at_capture}

\* C1: whenever the controller returns True, every reference discovered in
\* the attempt (element attributes, linked stylesheets, url() arguments) has a
\* cache entry, and no discovered reference is left with a failed fetch that
\* was not made good in the attempt.
C1_CompleteImpliesAllFetched ==
    Complete =>
        /\ \A u \in discovered : u \in DOMAIN asset_cache
        /\ fetch_failed \subseteq fetch_ok

\* C2: an attempt after a failed one, in which every fetch that failed in
\* the attempt before succeeds and no fetch fails, ends without a recorded
\* failure and sends no request for a canonical URL that an earlier attempt
\* had committed.
C2_RetryResumesFromCache ==
    (/\ pc = "verify"
     /\ attempt > 0
     /\ prev_failed # {}
     /\ prev_failed \subseteq fetch_ok
     /\ fetch_failed = {}) =>
        /\ _download_failures = 0
        /\ \A u \in CommittedBefore : Count(reqs, u) = 0

\* C3: when a discovered asset is answered with 404 on every attempt, the
\* controller makes max_retries attempts, returns False and assets.json is
\* not written.
C3_PersistentFailureExhaustsRetries ==
    (pc \in {"complete", "done"}
        /\ \E u \in discovered : u[1] = "web" /\ u[2] \in dead) =>
        /\ verdict = "Failed"
        /\ attempt = max_retries - 1
        /\ manifest_writes = 0

\* what a reference that is a fragment alone resolves to against the page URL
ResolvedFragment == css_url_of(<<"frag", "page">>)

\* C13: no cache key is a reference that begins with data:, javascript: or
\* "#", and no request goes out for such a reference, whether it stands in
\* an element attribute, in a stylesheet link or in a url() of a stylesheet.
C13_PassthroughNeverFetched ==
    /\ \A u \in DOMAIN asset_cache : ~Passthrough(u)
    /\ \A u \in DOMAIN reqs : ~Passthrough(u)
    /\ Count(reqs, ResolvedFragment) = 0
    /\ ResolvedFragment \notin DOMAIN asset_cache

\* C14: content that matches no signature, header or structure of the
\* category its URL stands for is rejected, and no file holds it: every
\* stored file holds content the validator accepts for its URL.
C14_RejectedContentLeavesNothing ==
    \A f \in DOMAIN files :
        LET content == files[f][2]
        IN  Validated(content, _get_expected_content_type(content.src))

\* C18: a capture of a page without references is Complete after its first
\* attempt, no request went out, and an empty assets.json was written.
C18_EmptyCaptureComplete ==
    (page = <<>> /\ pc \in {"complete", "done"}) =>
        /\ verdict = "Complete"
        /\ attempt = 0
        /\ reqs = EmptyMap
        /\ manifest_writes = 1
        /\ manifest = EmptyMap

\* C19: after failed attempt n (from 1) below max_retries the controller
\* waits 2^n seconds and starts attempt n + 1; after failed attempt
\* max_retries it does not wait and the capture is Failed; there are never
\* more than max_retries attempts, and no attempt starts after Complete.
C19_BackoffAndAttemptBound ==
    /\ [](attempt + 1 <= max_retries)
    /\ [][LET failed == pc = "verify" /\ _download_failures > 0
               more == attempt + 1 < max_retries
           IN  /\ (failed /\ more) =>
                      (/\ pc' = "backoff"
                       /\ backoff' = 2 ^ (attempt + 1)
                       /\ attempt' = attempt
                       /\ verdict' = "none")
               /\ (pc = "backoff") =>
                      (/\ pc' = "attempt"
                       /\ attempt' = attempt + 1
                       /\ backoff' = backoff)
               /\ (failed /\ ~more) =>
                      (/\ pc' = "done"
                       /\ verdict' = "Failed"
                       /\ backoff' = backoff
                       /\ attempt' = attempt)
               /\ (pc' = "backoff") => (pc = "verify")
               /\ (verdict = "Complete" /\ capture' = capture) =>
                      (/\ pc' \in {"complete", "done", "idle"}
                       /\ attempt' = attempt
                       /\ verdict' = "Complete")]_vars

\* a capture that ended Failed after max_retries attempts and a last wait
\* of 2^(max_retries - 1) seconds
C19_Witness ==
    /\ pc = "done"
    /\ verdict = "Failed"
    /\ attempt + 1 = max_retries
    /\ backoff = 2 ^ (max_retries - 1)

C23_FailedAttemptLeavesMarkup ==
    (pc = "backoff" \/ verdict = "Failed") => soup = page

\* C24: in a Complete capture of the page whose stylesheet imports a second
\* stylesheet, the url() references of every stylesheet that was fetched
\* have been fetched as well.
C24_DiscoveryReachesFixedPoint ==
    (Complete /\ page = << Stylesheet(<<"abs", "p">>) >>) =>
        \A u \in DOMAIN asset_cache :
            LET f == asset_cache[u][3]
                refs == IF f \in DOMAIN files THEN CssRefs(files[f][2])
                        ELSE <<>>
            IN  \A j \in DOMAIN refs :
                    Canon(refs[j]) \in {Canon(k) : k \in DOMAIN asset_cache}

\* C25: in global mode every entry of the cache is in the persisted cache
\* file as soon as it is committed, so at whatever point the run stops.
C25_CacheFileFollowsEveryCommit ==
    global_assets =>
        \A u \in DOMAIN asset_cache :
            u \in DOMAIN cache_file /\ cache_file[u] = asset_cache[u]

\* C26: the assets.json of a capture in whose last attempt no fetch failed
\* and whose discovered references all have a cache entry, of a page
\* without data: and "#" references, has an entry for every reference the capture discovered, in the markup
\* or in a stylesheet: the reference string as key, a local path as value.
C26_ManifestCoversDiscovered ==
    (/\ manifest_writes = 1
     /\ Complete
     /\ fetch_failed = {}
     /\ discovered \subseteq {Canon(k) : k \in DOMAIN asset_cache}
     /\ \A i \in DOMAIN page : ~Passthrough(page[i].val)) =>
        /\ \A d \in discovered : \E k \in DOMAIN manifest : Canon(k) = d
        /\ \A k \in DOMAIN manifest : manifest[k][1] = "path"

\* the linked stylesheets of the page that the server answers with 404
DeadStylesheets ==
    {i \in DOMAIN page : /\ page[i].tag = "stylesheet"
                         /\ Canon(page[i].val)[1] = "web"
                         /\ Canon(page[i].val)[2] \in dead}

\* C27: both download paths judge an attempt alike; in particular, when
\* the fetches of an attempt are over and a linked stylesheet of the page
\* was answered with 404, a failure is recorded, in sequential mode as in
\* parallel mode.
C27_PathsJudgeAlike ==
    (pc = "verify" /\ DeadStylesheets # {}) => _download_failures > 0

\* the references of the page whose URL is classified 'other'
OtherRefs ==
    {i \in DOMAIN page : /\ Canon(page[i].val)[1] = "web"
                         /\ _get_expected_content_type(Canon(page[i].val)) = "other"}

\* C30: for a URL classified 'other' the validator rejects every content, so
\* a capture whose markup references such a URL counts a failure in every
\* attempt and never ends Complete.
C30_OtherNeverCompletes ==
    OtherRefs # {} =>
        /\ pc = "verify" => _download_failures > 0
        /\ ~Complete

C5_OneRequestPerCanonicalUrl ==
    \A u \in DOMAIN reqs : reqs[u] <= 1

\* C6: with the global store, no request goes out for a URL that was
\* committed in an earlier capture.
C6_GlobalCacheServesLaterCaptures ==
    global_assets => \A u \in CommittedEarlier : Count(reqs, u) = 0

\* C7: no step changes the local path of a URL that has a cache entry.
C7_CachePathsNeverChange ==
    [][\A u \in DOMAIN asset_cache \cap DOMAIN asset_cache' :
          asset_cache'[u] = asset_cache[u]]_vars

\* C8: a cache entry names a file that was written completely with content
\* that passed validation.
C8_CommitOnlyValidatedContent ==
    \A u \in DOMAIN asset_cache :
        LET f == asset_cache[u][3]
        IN  /\ f \in DOMAIN files
            /\ files[f][1] \in {"bytes", "css"}
            /\ files[f][2].good

\* C9: in the index.html of a Complete capture every collected reference is
\* replaced by its local path.
C9_IndexHtmlFullyRewritten ==
    (pc = "done" /\ verdict = "Complete") =>
        \A i \in DOMAIN index_html :
            /\ index_html[i].val[1] = "path"
            /\ index_html[i].val[2] = _get_asset_path_prefix

\* C10: in a Complete capture that downloaded the stylesheet and stored its
\* text with url() references, one request went out for the stylesheet, each
\* url() reference
\* was discovered and has a cache entry, and the stored stylesheet file is
\* the text with every url() argument replaced by a local path.
C10_StylesheetFetchedOnceAndRewritten ==
    (/\ Complete
     /\ <<"web", "s">> \in fetch_ok
     /\ \E f \in DOMAIN files : files[f][2] = Content(<<"web", "s">>, TRUE)) =>
        /\ Count(reqs, <<"web", "s">>) = 1
        /\ \A j \in DOMAIN CssRefs(Content(<<"web", "s">>, TRUE)) :
              LET r == Canon(CssRefs(Content(<<"web", "s">>, TRUE))[j])
              IN  r \in discovered /\ r \in DOMAIN asset_cache
        /\ \E f \in DOMAIN files :
              /\ files[f][1] = "css"
              /\ files[f][2].src = <<"web", "s">>
              /\ Len(files[f][3]) = Len(CssRefs(Content(<<"web", "s">>, TRUE)))
              /\ \A j \in DOMAIN files[f][3] : files[f][3][j][1] = "path"

====
